---- MODULE Spec2Model ----
(***************************************************************************)
(* tonal: pitch encoding on the line of fifths, its decoding, the literal  *)
(* parse cache, rendering, midi numbers, transposition and the list        *)
(* direction utility.                                                      *)
(*                                                                         *)
(* Representation of JavaScript values.                                    *)
(*   - an encoded pitch (a JS array of numbers) is a sequence of integers; *)
(*     JS index k is TLA+ index k+1;                                       *)
(*   - null/undefined where a pitch or a number is expected is the empty   *)
(*     sequence (Null / None); an optional number n is <<n>> (Some(n));    *)
(*   - an argument of the public functions, which may be a string, an      *)
(*     array, a number or null, is a tagged record (Str, Arr, Num, NullV); *)
(*   - a rendered string is the sequence of its tokens.                    *)
(***************************************************************************)
EXTENDS Integers, Sequences, FiniteSets, TLC

VARIABLES op, arg, res, err, cache

vars == <<op, arg, res, err, cache>>

\* ---------------------------------------------------------------- bounds
MaxAlt == 4
MaxOctBelow == 2
MaxOct == 8

Steps == 0..6
Alts == (0 - MaxAlt)..MaxAlt
Octs == (0 - MaxOctBelow)..MaxOct
Dirs == {1, -1}

\* ---------------------------------------------------------- JS values
Null == <<>>
None == <<>>
Some(n) == <<n>>

Str(s) == [t |-> "str", s |-> s, a |-> <<>>]
Arr(a) == [t |-> "arr", s |-> "", a |-> a]
Num(n) == [t |-> "num", s |-> "", a |-> <<n>>]
NullV == [t |-> "null", s |-> "", a |-> <<>>]

isArr(v) == v.t = "arr"
isNum(x) == x # None

\* truncating remainder of JS: the sign follows the dividend
jsRem(a, b) == IF a >= 0 THEN a % b ELSE 0 - ((0 - a) % b)

\* ------------------------------------------------------- pitch encoding
FIFTHS == <<0, 2, 4, -1, 1, 3, 5>>

encPC(step, alt) == FIFTHS[step + 1] + 7 * alt

fifthsSpan(f) == (f * 7) \div 12

FIFTH_OCTS == [k \in 1..7 |-> fifthsSpan(FIFTHS[k])]

encOct(step, alt, oct) == oct - FIFTH_OCTS[step + 1] - 4 * alt

\* oct and dir are optional numbers
pitch_noNegOct(step, alt, oct, dir) ==
  IF step < 0 \/ step > 6 THEN Null
  ELSE LET pc == encPC(step, alt) IN
       IF ~isNum(oct) THEN <<pc>>
       ELSE LET o == encOct(step, alt, oct[1]) IN
            IF ~isNum(dir) THEN <<pc, o>>
            ELSE LET d == IF dir[1] < 0 THEN -1 ELSE 1 IN
                 <<d * pc, o, d>>

pitch(step, alt, oct, dir) ==
  IF step < 0 \/ step > 6 THEN Null
  ELSE LET pc == encPC(step, alt) IN
       IF ~isNum(oct) THEN <<pc>>
       ELSE LET o == encOct(step, alt, oct[1]) IN
            IF ~isNum(dir) THEN <<pc, o>>
            ELSE LET d == IF dir[1] < 0 THEN -1 ELSE 1 IN
                 <<d * pc, d * o, d>>

isPitch(p) == Len(p) >= 1
isPitchClass(p) == Len(p) = 1
hasOct(p) == isPitch(p) /\ Len(p) >= 2
isPitchNote(p) == hasOct(p) /\ Len(p) = 2
isInterval(i) == hasOct(i) /\ Len(i) >= 3

\* the same test on an argument of a public function
isPitchV(v) == isArr(v) /\ isPitch(v.a)

\* ------------------------------------------------------- pitch decoding
unaltered(f) ==
  LET i == jsRem(f + 1, 7) IN IF i < 0 THEN 7 + i ELSE i

STEPS == <<3, 0, 4, 1, 5, 2, 6>>

decodeStep(f) == STEPS[unaltered(f) + 1]

decodeAlt_noShift(f) == f \div 7

decodeAlt(f) == (f + 1) \div 7

decode(p) ==
  LET s == decodeStep(p[1])
      a == decodeAlt(p[1])
      o == IF Len(p) >= 2 THEN Some(p[2] + 4 * a + FIFTH_OCTS[s + 1]) ELSE None
  IN [step |-> s, alt |-> a, oct |-> o,
      dir |-> IF Len(p) >= 3 /\ p[3] # 0 THEN Some(p[3]) ELSE None]

\* ------------------------------------------------------ pitch parsers
\* The literals the model parses.  "A4" and "d5" are accepted by both
\* grammars (note A4 / augmented fourth, note D5 / diminished fifth).
Texts == {"A4", "d5", "C4", "M3", "H9"}

\* note-parser's parse: <<>> when the text is not a note name
noteGrammar(str) ==
  CASE str = "A4" -> <<[step |-> 5, alt |-> 0, oct |-> Some(4)]>>
    [] str = "d5" -> <<[step |-> 1, alt |-> 0, oct |-> Some(5)]>>
    [] str = "C4" -> <<[step |-> 0, alt |-> 0, oct |-> Some(4)]>>
    [] OTHER -> <<>>

\* interval-notation's parse: <<>> when the text is not an interval name
ivlGrammar(str) ==
  CASE str = "A4" -> <<[simple |-> 4, alt |-> 1, oct |-> 0, dir |-> 1]>>
    [] str = "d5" -> <<[simple |-> 5, alt |-> -1, oct |-> 0, dir |-> 1]>>
    [] str = "M3" -> <<[simple |-> 3, alt |-> 0, oct |-> 0, dir |-> 1]>>
    [] OTHER -> <<>>

Entry(p) == [set |-> TRUE, v |-> p]
Unset == [set |-> FALSE, v |-> Null]
EmptyCache == [t \in Texts |-> Unset]

\* cache[str] || (cache[str] = parser(str)): one store for every parser;
\* the parser is passed as the function it computes on Texts
cached(parser, v, c) ==
  IF v.t # "str" THEN [v |-> Null, c |-> c]
  ELSE IF c[v.s].set /\ c[v.s].v # Null THEN [v |-> c[v.s].v, c |-> c]
  ELSE LET r == parser[v.s] IN [v |-> r, c |-> [c EXCEPT ![v.s] = Entry(r)]]

noteParser(str) ==
  LET n == noteGrammar(str) IN
  IF n # <<>> THEN pitch(n[1].step, n[1].alt, n[1].oct, None) ELSE Null

ivlParser(str) ==
  LET i == ivlGrammar(str) IN
  IF i # <<>> THEN pitch(i[1].simple - 1, i[1].alt, Some(i[1].oct), Some(i[1].dir))
  ELSE Null

parseNote(v, c) == cached([s \in Texts |-> noteParser(s)], v, c)

parseIvl(v, c) == cached([s \in Texts |-> ivlParser(s)], v, c)

parsePitch(v, c) ==
  LET n == parseNote(v, c) IN
  IF n.v # Null THEN n ELSE parseIvl(v, n.c)

\* notation(parse, id): an encoded pitch passes through, the rest is parsed
expectNote(v, c) == IF ~isPitchV(v) THEN parseNote(v, c) ELSE [v |-> v.a, c |-> c]

expectPitch(v, c) == IF ~isPitchV(v) THEN parsePitch(v, c) ELSE [v |-> v.a, c |-> c]

\* ------------------------------------------------------ pitch to string
RECURSIVE fillStr(_, _)
fillStr(s, num) ==
  IF num = 0 THEN <<>>
  ELSE <<s>> \o fillStr(s, (IF num < 0 THEN 0 - num ELSE num) - 1)

stepLetter(s) == <<"C", "D", "E", "F", "G", "A", "B">>[s + 1]

altAcc(n) == fillStr(IF n < 0 THEN "b" ELSE "#", n)

strNum(n) == IF n # None THEN <<ToString(n[1])>> ELSE <<>>

strNote(p) ==
  IF isInterval(p) THEN Null
  ELSE LET d == decode(p) IN <<stepLetter(d.step)>> \o altAcc(d.alt) \o strNum(d.oct)

\* interval-notation's type: "P" for unison, fourth, fifth, else "M"
ivlType(num) ==
  LET n == IF num < 0 THEN 0 - num ELSE num IN
  <<"P", "M", "M", "P", "P", "M", "M">>[((n - 1) % 7) + 1]

\* interval-notation's altToQ: the quality glyphs of an alteration
altToQ(num, alt) ==
  LET t == ivlType(num) IN
  IF alt = 0 THEN (IF t = "M" THEN <<"M">> ELSE <<"P">>)
  ELSE IF alt = -1 /\ t = "M" THEN <<"m">>
  ELSE IF alt > 0 THEN fillStr("A", alt)
  ELSE fillStr("d", IF t = "P" THEN alt ELSE alt + 1)

isAsc(p) == p.dir = Some(1)

isPerf(p) == ivlType(p.step + 1) = "P"

calcNum(p) ==
  IF isAsc(p) THEN p.step + 1 + 7 * p.oct[1]
  ELSE (8 - p.step) - 7 * (p.oct[1] + 1)

calcAlt_neg(p) == IF isAsc(p) THEN p.alt ELSE 0 - p.alt

calcAlt(p) ==
  IF isAsc(p) THEN p.alt
  ELSE IF isPerf(p) THEN 0 - p.alt ELSE 0 - (p.alt + 1)

strIvl(pitch_) ==
  IF ~isInterval(pitch_) THEN Null
  ELSE LET p == decode(pitch_)
           num == calcNum(p)
       IN <<ToString(p.dir[1] * num)>> \o altToQ(num, calcAlt(p))

strPitch(p) == IF Len(p) >= 3 /\ p[3] # 0 THEN strIvl(p) ELSE strNote(p)

\* notation(id, strPitch) applied to a pitch or null
toPitchStr(p) == IF ~isPitch(p) THEN Null ELSE strPitch(p)

\* ------------------------------------------------------------- midi
height(p) == p[1] * 7 + 12 * p[2]

semitones(i) == height(i)

\* the literals of Texts are not numeric, so only a number can be a midi
isMidi(m) == ~isArr(m) /\ m.t = "num" /\ m.a[1] > 0 /\ m.a[1] < 129

midi_noOffset(val, c) ==
  LET e == expectNote(val, c) IN
  [v |-> IF hasOct(e.v) THEN Some(height(e.v))
         ELSE IF isMidi(val) THEN Some(val.a[1]) ELSE None,
   c |-> e.c]

midi(val, c) ==
  LET e == expectNote(val, c) IN
  [v |-> IF hasOct(e.v) THEN Some(height(e.v) + 12)
         ELSE IF isMidi(val) THEN Some(val.a[1]) ELSE None,
   c |-> e.c]

\* ------------------------------------------------------ transposition
\* reading p[0] of null raises a TypeError
trBy_sub(i, p) ==
  IF p = Null THEN [v |-> Null, err |-> "TypeError"]
  ELSE LET f == i[1] - p[1] IN
       IF Len(p) = 1 THEN [v |-> <<f>>, err |-> ""]
       ELSE LET o == i[2] + p[2] IN
            IF Len(p) = 2 THEN [v |-> <<f, o>>, err |-> ""]
            ELSE LET d == IF 7 * f + 12 * o < 0 THEN -1 ELSE 1 IN
                 [v |-> <<f, o, d>>, err |-> ""]

trBy(i, p) ==
  IF p = Null THEN [v |-> Null, err |-> "TypeError"]
  ELSE LET f == i[1] + p[1] IN
       IF Len(p) = 1 THEN [v |-> <<f>>, err |-> ""]
       ELSE LET o == i[2] + p[2] IN
            IF Len(p) = 2 THEN [v |-> <<f, o>>, err |-> ""]
            ELSE LET d == IF 7 * f + 12 * o < 0 THEN -1 ELSE 1 IN
                 [v |-> <<f, o, d>>, err |-> ""]

transpose_firstOnly(a, b, c) ==
  LET ea == expectPitch(a, c)
      eb == expectPitch(b, ea.c)
      pa == ea.v
      pb == eb.v
      r == IF isInterval(pa) THEN trBy(pa, pb)
           ELSE [v |-> Null, err |-> ""]
  IN [v |-> IF r.err = "" THEN toPitchStr(r.v) ELSE Null, err |-> r.err, c |-> eb.c]

transpose(a, b, c) ==
  LET ea == expectPitch(a, c)
      eb == expectPitch(b, ea.c)
      pa == ea.v
      pb == eb.v
      r == IF isInterval(pa) THEN trBy(pa, pb)
           ELSE IF isInterval(pb) THEN trBy(pb, pa)
           ELSE [v |-> Null, err |-> ""]
  IN [v |-> IF r.err = "" THEN toPitchStr(r.v) ELSE Null, err |-> r.err, c |-> eb.c]

\* ===================================================================
\* State machine: one action per call of a public function.  op names the
\* last call, arg its arguments, res its result, err the error it raised
\* ("" when it returned), cache the literal parse cache.
\* ===================================================================
Init ==
  /\ op = "init"
  /\ arg = <<>>
  /\ res = <<>>
  /\ err = ""
  /\ cache = EmptyCache

\* ------------------------------------------- encoder / decoder calls
OptOcts == {None} \cup {Some(o) : o \in Octs}
OptDirs == {None} \cup {Some(d) : d \in Dirs}

PitchArgs ==
  [step : -1..7, alt : Alts, oct : OptOcts, dir : OptDirs]

InitPitch ==
  /\ op = "init"
  /\ arg \in PitchArgs
  /\ res = <<>>
  /\ err = ""
  /\ cache = EmptyCache

\* pitch(step, alt, oct, dir), also with a step outside 0..6
Pitch ==
  /\ op = "init"
  /\ op' = "pitch"
  /\ res' = pitch(arg.step, arg.alt, arg.oct, arg.dir)
  /\ UNCHANGED <<arg, err, cache>>

\* decode applied to the pitch just built
Decode ==
  /\ op = "pitch" /\ res # Null
  /\ op' = "decode"
  /\ res' = decode(res)
  /\ UNCHANGED <<arg, err, cache>>

\* midi applied to the pitch just built
MidiOfPitch ==
  /\ op = "pitch" /\ res # Null
  /\ op' = "midi"
  /\ res' = midi(Arr(res), cache).v
  /\ cache' = midi(Arr(res), cache).c
  /\ UNCHANGED <<arg, err>>

\* strIvl applied to the pitch just built
StrIvl ==
  /\ op = "pitch" /\ res # Null
  /\ op' = "strIvl"
  /\ res' = strIvl(res)
  /\ UNCHANGED <<arg, err, cache>>

NextPitch == Pitch \/ Decode \/ MidiOfPitch \/ StrIvl

SpecPitch == InitPitch /\ [][NextPitch]_vars

\* ---------------------------------------------------- encoder claims
\* C1: decoding an encoded note gives back exactly the step, alt and oct
\* that were encoded, with dir = null; decoding an encoded pitch class
\* gives back step and alt with oct = null.
C1_RoundTrip ==
  op = "decode" /\ arg.dir = None =>
    res = [step |-> arg.step, alt |-> arg.alt, oct |-> arg.oct, dir |-> None]

C1_Witness ==
  /\ op = "decode"
  /\ arg = [step |-> 3, alt |-> -2, oct |-> Some(-1), dir |-> None]
  /\ res = [step |-> 3, alt |-> -2, oct |-> Some(-1), dir |-> None]

\* C2 as stated: decoding an encoded interval gives back exactly the step,
\* alt, oct and dir that were encoded, descending as well as ascending.
C2_Original ==
  op = "decode" /\ arg.dir # None /\ arg.oct # None =>
    res = [step |-> arg.step, alt |-> arg.alt, oct |-> arg.oct, dir |-> arg.dir]

\* C2 amended: an ascending interval decodes to exactly what was encoded; a
\* descending one decodes to dir = -1 and the negated coordinates: step
\* (7 - step) mod 7, alt -alt for unison, fourth and fifth and -alt - 1
\* otherwise, oct -oct for unison and -oct - 1 otherwise.
C2_Amended ==
  op = "decode" /\ arg.dir # None /\ arg.oct # None =>
    IF arg.dir = Some(1)
    THEN res = [step |-> arg.step, alt |-> arg.alt, oct |-> arg.oct, dir |-> Some(1)]
    ELSE res = [step |-> (7 - arg.step) % 7,
                alt |-> IF arg.step \in {0, 3, 4} THEN 0 - arg.alt ELSE 0 - arg.alt - 1,
                oct |-> Some(IF arg.step = 0 THEN 0 - arg.oct[1] ELSE 0 - arg.oct[1] - 1),
                dir |-> Some(-1)]

C2_Witness ==
  /\ op = "decode"
  /\ arg = [step |-> 1, alt |-> 0, oct |-> Some(0), dir |-> Some(-1)]
  /\ res = [step |-> 6, alt |-> -1, oct |-> Some(-1), dir |-> Some(-1)]

SEMITONE == <<0, 2, 4, 5, 7, 9, 11>>

\* C8: the midi number of an encoded note is 12 * (oct + 1) plus the
\* semitone of its letter plus its alteration.
C8_MidiFormula ==
  op = "midi" /\ arg.oct # None /\ arg.dir = None =>
    res = Some(12 * (arg.oct[1] + 1) + SEMITONE[arg.step + 1] + arg.alt)

C8_Witness ==
  /\ op = "midi"
  /\ arg = [step |-> 5, alt |-> 0, oct |-> Some(4), dir |-> None]
  /\ res = Some(69)

\* C9: rendering an encoded interval of octave count >= 0 recovers it: the
\* number is step + 1 + 7 * oct, the adjusted alteration is alt and the
\* rendered number carries the sign dir, so the text is dir * number
\* followed by the quality glyphs of (number, alt).
C9_RenderRecovers ==
  op = "strIvl" /\ arg.dir # None /\ arg.oct # None /\ arg.oct[1] >= 0 =>
    LET n == arg.step + 1 + 7 * arg.oct[1]
        p == decode(pitch(arg.step, arg.alt, arg.oct, arg.dir))
    IN /\ calcNum(p) = n
       /\ calcAlt(p) = arg.alt
       /\ res = <<ToString(arg.dir[1] * n)>> \o altToQ(n, arg.alt)

C9_Witness ==
  /\ op = "strIvl"
  /\ arg = [step |-> 1, alt |-> -1, oct |-> Some(1), dir |-> Some(-1)]
  /\ res = <<"-9", "m">>

\* ------------------------------------------- calls on literal text
\* encoded pitches used next to the literals: the pitch class C, the note
\* C4 and the ascending major third
PcC == pitch(0, 0, None, None)
NoteC4 == pitch(0, 0, Some(4), None)
IvlM3 == pitch(2, 0, Some(0), Some(1))

TextArgs == {Str(t) : t \in Texts}
MidiArgs == TextArgs \cup {NullV, Num(60), Num(0), Arr(NoteC4), Arr(PcC)}
TrArgs == TextArgs \cup {NullV, Arr(PcC), Arr(NoteC4), Arr(IvlM3)}

ParseNote ==
  \E v \in TextArgs :
    /\ op' = "parseNote"
    /\ arg' = v
    /\ res' = parseNote(v, cache).v
    /\ cache' = parseNote(v, cache).c
    /\ err' = ""

ParseIvl ==
  \E v \in TextArgs :
    /\ op' = "parseIvl"
    /\ arg' = v
    /\ res' = parseIvl(v, cache).v
    /\ cache' = parseIvl(v, cache).c
    /\ err' = ""

Midi ==
  \E v \in MidiArgs :
    /\ op' = "midi"
    /\ arg' = v
    /\ res' = midi(v, cache).v
    /\ cache' = midi(v, cache).c
    /\ err' = ""

\* transpose(a, b); when it raises, the cache keeps what was stored before
Transpose ==
  \E a \in TrArgs, b \in TrArgs :
    /\ op' = "transpose"
    /\ arg' = [a |-> a, b |-> b]
    /\ res' = transpose(a, b, cache).v
    /\ err' = transpose(a, b, cache).err
    /\ cache' = transpose(a, b, cache).c

Next == ParseNote \/ ParseIvl \/ Midi \/ Transpose

Spec == Init /\ [][Next]_vars

\* C3: every parseNote, parseIvl and midi call on a text returns what the
\* uncached parse-and-encode of its own grammar returns for that text,
\* whatever was parsed before.
C3_CacheTransparent ==
  /\ op = "parseNote" => res = noteParser(arg.s)
  /\ op = "parseIvl" => res = ivlParser(arg.s)
  /\ op = "midi" /\ arg.t = "str" =>
       res = IF hasOct(noteParser(arg.s)) THEN Some(height(noteParser(arg.s)) + 12)
             ELSE None

\* the pitch an operand stands for: itself, or its literal parsed afresh
operandPitch(v) == expectPitch(v, EmptyCache).v

\* C5 (its case of an invalid operand): when either operand of transpose
\* is invalid or fails to parse, also next to a valid interval, transpose
\* returns null and raises nothing.
C5_InvalidOperandNull ==
  op = "transpose" =>
    (operandPitch(arg.a) = Null \/ operandPitch(arg.b) = Null
       => err = "" /\ res = Null)

\* ------------------------------------- transposition of encoded pitches
TrMaxAlt == 2
TrMaxOct == 1

TrAlts == (0 - TrMaxAlt)..TrMaxAlt
PcSrc == [step : Steps, alt : TrAlts, oct : {None}, dir : {None}]
NoteSrc == [step : Steps, alt : TrAlts,
            oct : {Some(o) : o \in (0 - TrMaxOct)..TrMaxOct}, dir : {None}]
IvlSrc == [step : Steps, alt : TrAlts,
           oct : {Some(o) : o \in 0..TrMaxOct}, dir : {Some(d) : d \in Dirs}]
TrSrc == PcSrc \cup NoteSrc \cup IvlSrc

enc(x) == pitch(x.step, x.alt, x.oct, x.dir)

\* arg.x and arg.y are what the two operands were encoded from
InitTr ==
  /\ op = "init"
  /\ arg \in [x : TrSrc, y : TrSrc]
  /\ res = <<>>
  /\ err = ""
  /\ cache = EmptyCache

TransposeEnc ==
  /\ op = "init"
  /\ op' = "transpose"
  /\ res' = transpose(Arr(enc(arg.x)), Arr(enc(arg.y)), cache).v
  /\ err' = transpose(Arr(enc(arg.x)), Arr(enc(arg.y)), cache).err
  /\ cache' = transpose(Arr(enc(arg.x)), Arr(enc(arg.y)), cache).c
  /\ UNCHANGED arg

NextTr == TransposeEnc

SpecTr == InitTr /\ [][NextTr]_vars

\* C4: when exactly one operand is interval-shaped, transpose(a, b) and
\* transpose(b, a) return the same result.
C4_Symmetry ==
  op = "transpose" /\ (isInterval(enc(arg.x)) # isInterval(enc(arg.y))) =>
    LET t == transpose(Arr(enc(arg.y)), Arr(enc(arg.x)), EmptyCache)
    IN res = t.v /\ err = t.err /\ res # Null

C4_Witness ==
  /\ op = "transpose"
  /\ arg.x = [step |-> 2, alt |-> 0, oct |-> Some(0), dir |-> Some(1)]
  /\ arg.y = [step |-> 0, alt |-> 0, oct |-> Some(1), dir |-> None]
  /\ res = <<"E", "1">>

\* C10: transposing the note (s, a, o) by the interval of simple number n
\* and direction d gives the note whose letter step is (s + d * (n - 1))
\* mod 7 and whose midi number is midi(note) + semitones(interval), the
\* semitones of a descending interval being minus those of the ascending one.
C10_TransposeNote ==
  op = "transpose" /\ arg.x \in NoteSrc /\ arg.y \in IvlSrc =>
    LET d == arg.y.dir[1]
        S == (arg.x.step + d * arg.y.step) % 7
        asc == semitones(pitch(arg.y.step, arg.y.alt, arg.y.oct, Some(1)))
        M == midi(Arr(enc(arg.x)), EmptyCache).v[1] + semitones(enc(arg.y))
        base == M \div 12
    IN /\ semitones(enc(arg.y)) = d * asc
       /\ err = ""
       /\ \E O \in (base - 3)..(base + 1) :
            LET A == M - 12 * (O + 1) - SEMITONE[S + 1]
                n == pitch(S, A, Some(O), None)
            IN /\ res = strNote(n)
               /\ midi(Arr(n), EmptyCache).v = Some(M)
               /\ decode(n).step = S

C10_Witness ==
  /\ op = "transpose"
  /\ arg.x = [step |-> 0, alt |-> 0, oct |-> Some(1), dir |-> None]
  /\ arg.y = [step |-> 1, alt |-> -1, oct |-> Some(0), dir |-> Some(-1)]
  /\ res = <<"B", "0">>

\* ------------------------------------------------- list direction
MaxLen == 3
MaxDir == 2

\* the note objects of direction.js, each held as its encoded pitch
noteMidi(n) == midi(Arr(n), EmptyCache).v[1]
noteOct(n) == decode(n).oct[1]
noteWithOct(n, oct) == pitch(decode(n).step, decode(n).alt, Some(oct), None)

GT(a, b) == a > b
LT(a, b) == a < b

RECURSIVE dirLoop(_, _, _, _)
dirLoop(list, result, i, dir) ==
  IF i > Len(list) THEN result
  ELSE LET prev == result[i - 1]
           curr == list[i]
           off == IF dir = 1 THEN 1 ELSE 0
           comp == IF dir = 1 THEN GT(noteMidi(prev), noteMidi(curr))
                   ELSE LT(noteMidi(prev), noteMidi(curr))
           oct == ((noteMidi(prev) - noteMidi(curr)) \div 12) + off
       IN dirLoop(list,
                  Append(result, IF comp THEN noteWithOct(curr, noteOct(curr) + oct)
                                 ELSE curr),
                  i + 1, dir)

\* list.slice(0, 1)
slice01(list) == IF Len(list) = 0 THEN <<>> ELSE <<list[1]>>

direction_noDefault(list, dirArg) ==
  IF dirArg # 1 /\ dirArg # -1 THEN [v |-> <<>>, err |-> "Error"]
  ELSE [v |-> dirLoop(list, slice01(list), 2, dirArg), err |-> ""]

\* dir || 1 turns a direction of 0 into 1
direction(list, dirArg) ==
  LET dir == IF dirArg = 0 THEN 1 ELSE dirArg IN
  IF dir # 1 /\ dir # -1 THEN [v |-> <<>>, err |-> "Error"]
  ELSE [v |-> dirLoop(list, slice01(list), 2, dir), err |-> ""]

\* C4, G3, E5, C5 and B#3, which sounds as C4
DirNotes ==
  { pitch(0, 0, Some(4), None), pitch(4, 0, Some(3), None),
    pitch(2, 0, Some(5), None), pitch(0, 0, Some(5), None),
    pitch(6, 1, Some(3), None) }

DirLists == UNION {[1..n -> DirNotes] : n \in 0..MaxLen}
DirArgs == (0 - MaxDir)..MaxDir

InitDir ==
  /\ op = "init"
  /\ arg \in [list : DirLists, dir : DirArgs]
  /\ res = <<>>
  /\ err = ""
  /\ cache = EmptyCache

Direction ==
  /\ op = "init"
  /\ op' = "direction"
  /\ res' = direction(arg.list, arg.dir).v
  /\ err' = direction(arg.list, arg.dir).err
  /\ UNCHANGED <<arg, cache>>

NextDir == Direction

SpecDir == InitDir /\ [][NextDir]_vars

\* C6: for direction +1 (-1) the result has the length of the input, starts
\* with the input's first element, and every later element is strictly
\* higher (lower) than the result element before it.
C6_StrictlyMonotonic ==
  op = "direction" /\ arg.dir \in {1, -1} =>
    /\ err = ""
    /\ Len(res) = Len(arg.list)
    /\ Len(res) >= 1 => res[1] = arg.list[1]
    /\ \A i \in 2..Len(res) :
         IF arg.dir = 1 THEN noteMidi(res[i]) > noteMidi(res[i - 1])
         ELSE noteMidi(res[i]) < noteMidi(res[i - 1])

\* C7 as stated: the call raises exactly when the direction is neither +1
\* nor -1.
C7_Original ==
  op = "direction" => (err # "" <=> arg.dir \notin {1, -1})

\* C7 amended: the call raises for every direction other than +1, -1 and
\* 0; for +1 and -1 it returns, and a direction of 0 is replaced by the
\* default +1 and returns what +1 returns.
C7_Amended ==
  op = "direction" =>
    /\ err # "" <=> arg.dir \notin {1, -1, 0}
    /\ err # "" => err = "Error" /\ res = <<>>
    /\ arg.dir = 0 => res = dirLoop(arg.list, slice01(arg.list), 2, 1)

C7_Witness ==
  /\ op = "direction"
  /\ arg.dir = 0
  /\ Len(arg.list) = 2 /\ noteMidi(arg.list[1]) > noteMidi(arg.list[2])
  /\ err = ""
  /\ noteMidi(res[2]) > noteMidi(res[1])

====
